---- MODULE Spec2Model ----
(***************************************************************************)
(* Model of wagtail_vector_index/storage/base.py: the VectorIndex          *)
(* orchestration (query, search, find_similar, _deduplicate_list,          *)
(* _get_storage_provider) and the StorageProvider base class.              *)
(*                                                                         *)
(* Text (str) is a sequence of characters, written here as a sequence of   *)
(* tokens; None is the empty sequence <<>> and a present value v is <<v>>  *)
(* wherever Python has an optional value.                                  *)
(***************************************************************************)
EXTENDS Integers, Sequences, FiniteSets, TLC

VARIABLES
    \* ---- VectorIndex calls (specification Spec)
    pc,                 \* position of the running public operation
    op,                 \* the call: operation and arguments
    calls,              \* calls made by the index during the operation, in order
    similar_documents,  \* local of query / find_similar / search
    produced,           \* Documents drawn so far from converter.to_documents
    converted,          \* what converter.bulk_from_documents yielded
    sources,            \* result of _deduplicate_list
    messages,           \* messages handed to chat_backend.chat
    outcome,            \* how the operation ended and what it returned
    owner,              \* the converter: Document -> owning domain object
    embedded,           \* what the embedding backend's generator held
    \* ---- _deduplicate_list alone (specification SpecDedup)
    dd_objects, dd_exclusions, dd_result, dd_done,
    \* ---- StorageProvider (specification SpecProvider)
    classes,            \* StorageProvider subclasses that exist
    class_stmt,         \* the last class statement and how it ended
    heap,               \* nested mutable values, by address
    caller_map,         \* the caller's config mapping: key -> address of its value
    provider,           \* the constructed provider: <<>> or <<[cls, config]>>
    init_error,         \* outcome of the last StorageProvider(...) call
    snap_input,         \* deep value of the caller's mapping when __init__ began
    snap_config,        \* deep value of provider.config when __init__ returned
    touched             \* the caller has mutated the mapping since __init__

varsIndex == <<pc, op, calls, similar_documents, produced, converted, sources,
               messages, outcome, owner, embedded>>
varsDedup == <<dd_objects, dd_exclusions, dd_result, dd_done>>
varsProvider == <<classes, class_stmt, heap, caller_map, provider, init_error,
                  snap_input, snap_config, touched>>
vars == <<varsIndex, varsDedup, varsProvider>>

\* ------------------------------------------------------------------------
\* Bounds

NumDocs == 2
MaxOwnDocs == 2
MaxLen == 3
MaxExclusions == 2

\* ------------------------------------------------------------------------
\* Values

DefaultLimit == 5

Docs == 1..NumDocs
Objects == {"A", "B"}
Limits == {1, DefaultLimit}
Texts == {<<"cats">>, <<"c", "\n", "d">>}
ChatAliases == {"default", "other"}
ChatResponses == {"r1", "r2"}
QueryVector == "v"
DefaultPrompt == <<"You are a helpful assistant. Use the following context to answer the question. Don't mention the context in your answer.">>
PromptSettings == {<<>>, << <<>> >>, << <<"Be brief.">> >>}
NL == "\n"

\* values _deduplicate_list is tried on
DedupValues == {"A", "B", "C"}

\* StorageProvider: the keys a config mapping may hold, the fields of the
\* typed config (config_class), the nested values and where they live
Keys == {"host", "port", "extra"}
RequiredKeys == {"host"}
OptionalKeys == {"port"}
NestedValues == {0, 1}
Addresses == {"in", "copy"} \X Keys
ClassNames == {"P1", "P2"}

\* Document.metadata["content"] of the stored Documents
Content(d) == IF d = 1 THEN <<"Cats are mammals.">> ELSE <<"Cats purr.">>

Min(a, b) == IF a < b THEN a ELSE b
InSeq(x, s) == \E i \in 1..Len(s) : s[i] = x
Call(f, l, m) == [fn |-> f, limit |-> l, mixin |-> m]

\* ------------------------------------------------------------------------
\* Collaborators: the embedding backend, the storage behind
\* get_similar_documents, the converter, the provider registry

\* embed([query]) is a generator: it holds no vector or one
EmbedResults == {<<>>, <<QueryVector>>}

\* the storage step answers with at most `limit` distinct stored Documents
FetchResults(limit) ==
    {s \in UNION {[1..n -> Docs] : n \in 0..Min(limit, NumDocs)} :
        \A i, j \in 1..Len(s) : s[i] = s[j] => i = j}

\* the index class in use and the mixins the configured providers require
IndexBases == {"NumpyIndexMixin"}
ProviderMixins == {"NumpyIndexMixin", "PgvectorIndexMixin"}

\* ------------------------------------------------------------------------
\* Pure parts of VectorIndex

RECURSIVE dict_fromkeys(_)
\* list(dict.fromkeys(items)): keys in insertion order, a repeated key kept once
dict_fromkeys(items) ==
    IF items = <<>> THEN <<>>
    ELSE LET front == dict_fromkeys(SubSeq(items, 1, Len(items) - 1))
             last == items[Len(items)]
         IN IF InSeq(last, front) THEN front ELSE Append(front, last)

Mutant_deduplicate_list(objects, exclusions) ==
    LET excl == IF exclusions = <<>> THEN <<>> ELSE exclusions[1]
        kept == dict_fromkeys(objects)
    IN IF kept # <<>> /\ InSeq(Head(kept), excl) THEN Tail(kept) ELSE kept

\* exclusions is <<>> for None and <<list>> for a list
_deduplicate_list(objects, exclusions) ==
    LET excl == IF exclusions = <<>> THEN <<>> ELSE exclusions[1]
    IN dict_fromkeys(SelectSeq(objects, LAMBDA item : ~InSeq(item, excl)))

Mutant_query_embedding(gen) == [raised |-> "none", vector |-> QueryVector]

\* next(embed([query])), StopIteration turned into ValueError
query_embedding(gen) ==
    IF gen = <<>> THEN [raised |-> "ValueError", vector |-> "none"]
    ELSE [raised |-> "none", vector |-> Head(gen)]

\* query calls get_similar_documents(query_embedding): the limit is the
\* parameter's default, sources_limit is not passed
query_fetch_limit(sources_limit) == DefaultLimit

Mutant_search_fetch_limit(limit) == DefaultLimit

\* search calls get_similar_documents(query_embedding, limit=limit)
search_fetch_limit(limit) == limit

Mutant_find_similar_fetch_limit(limit) == DefaultLimit

\* find_similar calls get_similar_documents(document.vector, limit=limit)
find_similar_fetch_limit(limit) == limit

Mutant_find_similar_exclusions(include_self, object) == <<>>

\* exclusions=None if include_self else [object]
find_similar_exclusions(include_self, object) ==
    IF include_self THEN <<>> ELSE << <<object>> >>

\* converter.bulk_from_documents: each Document resolved to its owner
bulk_from_documents(documents) == [i \in 1..Len(documents) |-> owner[documents[i]]]

RECURSIVE join(_, _)
\* sep.join(strs)
join(sep, strs) ==
    IF strs = <<>> THEN <<>>
    ELSE IF Len(strs) = 1 THEN strs[1]
    ELSE strs[1] \o <<sep>> \o join(sep, Tail(strs))

\* one line per distinct source instead of one per matched Document
Mutant_merged_context(documents) ==
    LET first == SelectSeq(documents, LAMBDA d :
                     \A k \in 1..Len(documents) :
                         (owner[documents[k]] = owner[d] /\ documents[k] # d)
                             => \E j \in 1..(k - 1) : documents[j] = d)
    IN join(NL, [i \in 1..Len(first) |-> Content(first[i])])

\* "\n".join(doc.metadata["content"] for doc in similar_documents)
merged_context(documents) ==
    join(NL, [i \in 1..Len(documents) |-> Content(documents[i])])

\* getattr(settings, "WAGTAIL_VECTOR_INDEX_QUERY_PROMPT", None) or <default>
query_prompt(setting) ==
    IF setting = <<>> \/ setting[1] = <<>> THEN DefaultPrompt ELSE setting[1]

query_messages(prompt, context, query) ==
    << [content |-> prompt, role |-> "system"],
       [content |-> context, role |-> "system"],
       [content |-> query, role |-> "user"] >>

Mutant_get_storage_provider(index_mixin) == "provider"

\* issubclass(self.__class__, provider.index_mixin), TypeError otherwise
_get_storage_provider(index_mixin) ==
    IF index_mixin \notin IndexBases THEN "TypeError" ELSE "provider"

\* ------------------------------------------------------------------------
\* State of the VectorIndex calls

NoOp == [kind |-> "none", text |-> <<>>, object |-> "A", limit |-> 0,
         include_self |-> FALSE, alias |-> "default", setting |-> <<>>]
Running == [status |-> "running", response |-> <<>>, sources |-> <<>>]
Raised(e) == [status |-> e, response |-> <<>>, sources |-> <<>>]
\* a returned list is held in `sources`; query's QueryResponse fills both
Returned(response, result) ==
    [status |-> "returned", response |-> response, sources |-> result]

IdleIndex ==
    /\ pc = "idle"
    /\ op = NoOp
    /\ calls = <<>>
    /\ similar_documents = <<>>
    /\ produced = 0
    /\ converted = <<>>
    /\ sources = <<>>
    /\ messages = <<>>
    /\ outcome = Running
    /\ embedded = <<>>

IdleDedup ==
    /\ dd_objects = <<>>
    /\ dd_exclusions = <<>>
    /\ dd_result = <<>>
    /\ dd_done = FALSE

NoClassStmt == [name |-> "none", parent |-> "StorageProvider", declares |-> FALSE,
                raised |-> "none"]

IdleProvider ==
    /\ classes = {}
    /\ class_stmt = NoClassStmt
    /\ heap = [a \in Addresses |-> 0]
    /\ caller_map = [k \in {} |-> <<"in", k>>]
    /\ provider = <<>>
    /\ init_error = "unattempted"
    /\ snap_input = [k \in {} |-> 0]
    /\ snap_config = [k \in {} |-> 0]
    /\ touched = FALSE

Init ==
    /\ IdleIndex
    /\ owner \in [Docs -> Objects]
    /\ IdleDedup
    /\ IdleProvider

\* a public operation is entered: nothing of it has run yet
Begin(o, next) ==
    /\ pc' = next
    /\ op' = o
    /\ UNCHANGED <<calls, similar_documents, produced, converted, sources,
                   messages, outcome, owner, embedded>>
    /\ UNCHANGED <<varsDedup, varsProvider>>

\* the concrete get_similar_documents of the index class in use: the provider
\* is resolved and checked, then the storage answers
get_similar_documents(limit, next) ==
    \E index_mixin \in ProviderMixins :
        LET made == calls \o << Call("get_similar_documents", limit, ""),
                                Call("_get_storage_provider", 0, index_mixin) >>
        IN IF _get_storage_provider(index_mixin) = "TypeError"
           THEN /\ calls' = made
                /\ pc' = "failed"
                /\ outcome' = Raised("TypeError")
                /\ UNCHANGED similar_documents
           ELSE \E found \in FetchResults(limit) :
                /\ calls' = Append(made, Call("storage_search", limit, ""))
                /\ similar_documents' = similar_documents \o found
                /\ pc' = next
                /\ UNCHANGED outcome

\* lines 132-135 of query and 178-181 of search
Embed(next) ==
    \E gen \in EmbedResults :
        /\ embedded' = gen
        /\ calls' = Append(calls, Call("embed", 0, ""))
        /\ IF query_embedding(gen).raised = "ValueError"
           THEN pc' = "failed" /\ outcome' = Raised("ValueError")
           ELSE pc' = next /\ UNCHANGED outcome
        /\ UNCHANGED <<op, similar_documents, produced, converted, sources,
                       messages, owner>>
        /\ UNCHANGED <<varsDedup, varsProvider>>

\* ---- query

QueryCall ==
    /\ pc = "idle"
    /\ \E text \in Texts, sources_limit \in Limits, alias \in ChatAliases,
       setting \in PromptSettings :
        Begin([NoOp EXCEPT !.kind = "query", !.text = text,
                           !.limit = sources_limit, !.alias = alias,
                           !.setting = setting], "query_embed")

QueryEmbed == pc = "query_embed" /\ Embed("query_fetch")

QueryFetch ==
    /\ pc = "query_fetch"
    /\ get_similar_documents(query_fetch_limit(op.limit), "query_convert")
    /\ UNCHANGED <<op, produced, converted, sources, messages, owner, embedded>>
    /\ UNCHANGED <<varsDedup, varsProvider>>

QueryConvert ==
    /\ pc = "query_convert"
    /\ converted' = bulk_from_documents(similar_documents)
    /\ sources' = _deduplicate_list(converted', <<>>)
    /\ calls' = Append(calls, Call("bulk_from_documents", 0, ""))
    /\ pc' = "query_chat"
    /\ UNCHANGED <<op, similar_documents, produced, messages, outcome, owner,
                   embedded>>
    /\ UNCHANGED <<varsDedup, varsProvider>>

QueryChat ==
    /\ pc = "query_chat"
    /\ messages' = query_messages(query_prompt(op.setting),
                                  merged_context(similar_documents), op.text)
    /\ calls' = Append(calls, Call("chat", 0, op.alias))
    /\ \E response \in ChatResponses :
           outcome' = Returned(<<response>>, sources)
    /\ pc' = "done"
    /\ UNCHANGED <<op, similar_documents, produced, converted, sources, owner,
                   embedded>>
    /\ UNCHANGED <<varsDedup, varsProvider>>

\* ---- search

SearchCall ==
    /\ pc = "idle"
    /\ \E text \in Texts, limit \in Limits :
        Begin([NoOp EXCEPT !.kind = "search", !.text = text, !.limit = limit],
              "search_embed")

SearchEmbed == pc = "search_embed" /\ Embed("search_fetch")

SearchFetch ==
    /\ pc = "search_fetch"
    /\ get_similar_documents(search_fetch_limit(op.limit), "search_convert")
    /\ UNCHANGED <<op, produced, converted, sources, messages, owner, embedded>>
    /\ UNCHANGED <<varsDedup, varsProvider>>

SearchConvert ==
    /\ pc = "search_convert"
    /\ converted' = bulk_from_documents(similar_documents)
    /\ sources' = _deduplicate_list(converted', <<>>)
    /\ calls' = Append(calls, Call("bulk_from_documents", 0, ""))
    /\ outcome' = Returned(<<>>, sources')
    /\ pc' = "done"
    /\ UNCHANGED <<op, similar_documents, produced, messages, owner, embedded>>
    /\ UNCHANGED <<varsDedup, varsProvider>>

\* ---- find_similar

FindSimilarCall ==
    /\ pc = "idle"
    /\ \E object \in Objects, include_self \in BOOLEAN, limit \in Limits :
        Begin([NoOp EXCEPT !.kind = "find_similar", !.object = object,
                           !.include_self = include_self, !.limit = limit],
              "find_similar_loop")

\* the generator of to_documents yields one more Document; its neighbours
\* are fetched and accumulated
FindSimilarNext ==
    /\ pc = "find_similar_loop"
    /\ produced < MaxOwnDocs
    /\ produced' = produced + 1
    /\ get_similar_documents(find_similar_fetch_limit(op.limit), "find_similar_loop")
    /\ UNCHANGED <<op, converted, sources, messages, owner, embedded>>
    /\ UNCHANGED <<varsDedup, varsProvider>>

\* the generator is exhausted: convert, deduplicate, return
FindSimilarReturn ==
    /\ pc = "find_similar_loop"
    /\ converted' = bulk_from_documents(similar_documents)
    /\ sources' = _deduplicate_list(converted',
                      find_similar_exclusions(op.include_self, op.object))
    /\ calls' = Append(calls, Call("bulk_from_documents", 0, ""))
    /\ outcome' = Returned(<<>>, sources')
    /\ pc' = "done"
    /\ UNCHANGED <<op, similar_documents, produced, messages, owner, embedded>>
    /\ UNCHANGED <<varsDedup, varsProvider>>

\* the operation has returned or raised; the index holds no state of it
Finish ==
    /\ pc \in {"done", "failed"}
    /\ pc' = "idle"
    /\ op' = NoOp
    /\ calls' = <<>>
    /\ similar_documents' = <<>>
    /\ produced' = 0
    /\ converted' = <<>>
    /\ sources' = <<>>
    /\ messages' = <<>>
    /\ outcome' = Running
    /\ embedded' = <<>>
    /\ UNCHANGED owner
    /\ UNCHANGED <<varsDedup, varsProvider>>

Next ==
    \/ QueryCall \/ QueryEmbed \/ QueryFetch \/ QueryConvert \/ QueryChat
    \/ SearchCall \/ SearchEmbed \/ SearchFetch \/ SearchConvert
    \/ FindSimilarCall \/ FindSimilarNext \/ FindSimilarReturn
    \/ Finish

Spec == Init /\ [][Next]_vars

\* ------------------------------------------------------------------------
\* _deduplicate_list on its own

BoundedSeqs(S, n) == UNION {[1..k -> S] : k \in 0..n}

InitDedup ==
    /\ IdleIndex
    /\ owner = [d \in Docs |-> "A"]
    /\ IdleProvider
    /\ dd_objects \in BoundedSeqs(DedupValues, MaxLen)
    /\ dd_exclusions \in {<<>>} \cup {<<e>> : e \in BoundedSeqs(DedupValues, MaxExclusions)}
    /\ dd_result = <<>>
    /\ dd_done = FALSE

Deduplicate ==
    /\ ~dd_done
    /\ dd_result' = _deduplicate_list(dd_objects, dd_exclusions)
    /\ dd_done' = TRUE
    /\ UNCHANGED <<dd_objects, dd_exclusions, varsIndex, varsProvider>>

NextDedup == Deduplicate

SpecDedup == InitDedup /\ [][NextDedup]_vars

\* ------------------------------------------------------------------------
\* StorageProvider: class statements, construction, the caller's mapping

DeepValue(mapping, h) == [k \in DOMAIN mapping |-> h[mapping[k]]]
ClassNamed(name) == CHOOSE c \in classes : c.name = name
DefinedNames == {c.name : c \in classes}

RECURSIVE hasattr_config_class(_)
\* hasattr(cls, "config_class"): declared in the class body or inherited; the
\* base class only annotates it
hasattr_config_class(name) ==
    IF name = "StorageProvider" THEN FALSE
    ELSE ClassNamed(name).declares \/ hasattr_config_class(ClassNamed(name).parent)

Mutant_init_subclass_raises(declares, parent) == FALSE

\* __init_subclass__: AttributeError unless the new class has config_class
init_subclass_raises(declares, parent) ==
    ~(declares \/ hasattr_config_class(parent))

\* config_class(**config): TypeError for a missing or an unexpected keyword
config_class_raises(keys) ==
    ~(RequiredKeys \subseteq keys /\ keys \subseteq (RequiredKeys \cup OptionalKeys))

Mutant_deepcopy(mapping) == mapping

\* dict(copy.deepcopy(config)): a new mapping whose values are new objects
deepcopy(mapping) == [k \in DOMAIN mapping |-> <<"copy", k>>]

\* the heap once the objects of `copy` hold what those of `mapping` hold
heap_after_copy(mapping, copy) ==
    [a \in Addresses |->
        IF \E k \in DOMAIN mapping : copy[k] = a /\ copy[k] # mapping[k]
        THEN heap[mapping[a[2]]]
        ELSE heap[a]]

InitProvider ==
    /\ IdleIndex
    /\ owner = [d \in Docs |-> "A"]
    /\ IdleDedup
    /\ IdleProvider

\* class <name>(<parent>): with or without a config_class in its body
DefineSubclass ==
    \E name \in ClassNames \ DefinedNames,
       parent \in {"StorageProvider"} \cup DefinedNames,
       declares \in BOOLEAN :
        /\ IF init_subclass_raises(declares, parent)
           THEN /\ class_stmt' = [name |-> name, parent |-> parent,
                                  declares |-> declares, raised |-> "AttributeError"]
                /\ UNCHANGED classes
           ELSE /\ class_stmt' = [name |-> name, parent |-> parent,
                                  declares |-> declares, raised |-> "none"]
                /\ classes' = classes \cup
                       {[name |-> name, parent |-> parent, declares |-> declares]}
        /\ UNCHANGED <<heap, caller_map, provider, init_error, snap_input,
                       snap_config, touched, varsIndex, varsDedup>>

\* <cls>(caller_map): StorageProvider.__init__
Construct ==
    \E c \in classes :
        LET config == deepcopy(caller_map)
            copied == heap_after_copy(caller_map, config)
        IN /\ snap_input' = DeepValue(caller_map, heap)
           /\ heap' = copied
           /\ touched' = FALSE
           /\ IF ~hasattr_config_class(c.name)
              THEN /\ init_error' = "AttributeError"
                   /\ provider' = <<>>
                   /\ snap_config' = [k \in {} |-> 0]
              ELSE IF config_class_raises(DOMAIN config)
              THEN /\ init_error' = "ImproperlyConfigured"
                   /\ provider' = <<>>
                   /\ snap_config' = [k \in {} |-> 0]
              ELSE /\ init_error' = "none"
                   /\ provider' = << [cls |-> c.name, config |-> config] >>
                   /\ snap_config' = DeepValue(config, copied)
           /\ UNCHANGED <<classes, class_stmt, caller_map, varsIndex, varsDedup>>

\* the caller's own code: caller_map[k] = [v]
CallerSetsKey ==
    \E k \in Keys \ DOMAIN caller_map, v \in NestedValues :
        /\ caller_map' = [j \in DOMAIN caller_map \cup {k} |-> <<"in", j>>]
        /\ heap' = [heap EXCEPT ![<<"in", k>>] = v]
        /\ touched' = TRUE
        /\ UNCHANGED <<classes, class_stmt, provider, init_error, snap_input,
                       snap_config, varsIndex, varsDedup>>

\* del caller_map[k]
CallerDeletesKey ==
    \E k \in DOMAIN caller_map :
        /\ caller_map' = [j \in DOMAIN caller_map \ {k} |-> <<"in", j>>]
        /\ touched' = TRUE
        /\ UNCHANGED <<classes, class_stmt, heap, provider, init_error,
                       snap_input, snap_config, varsIndex, varsDedup>>

\* caller_map[k][0] = v: a nested value changed in place
CallerMutatesNested ==
    \E k \in DOMAIN caller_map, v \in NestedValues :
        /\ v # heap[caller_map[k]]
        /\ heap' = [heap EXCEPT ![caller_map[k]] = v]
        /\ touched' = TRUE
        /\ UNCHANGED <<classes, class_stmt, caller_map, provider, init_error,
                       snap_input, snap_config, varsIndex, varsDedup>>

NextProvider ==
    \/ DefineSubclass
    \/ Construct
    \/ CallerSetsKey
    \/ CallerDeletesKey
    \/ CallerMutatesNested

SpecProvider == InitProvider /\ [][NextProvider]_vars

\* ------------------------------------------------------------------------
\* Vocabulary of the properties

Terminated == pc \in {"done", "failed"}

FirstIndex(s, x) == CHOOSE i \in 1..Len(s) : s[i] = x /\ \A k \in 1..(i - 1) : s[k] # x

\* out lists the distinct values of in that are not in excluded, in the
\* order of their first appearance in in
IsFirstSeenDistinct(out, in, excluded) ==
    /\ \A i, j \in 1..Len(out) : out[i] = out[j] => i = j
    /\ {out[i] : i \in 1..Len(out)} = {in[i] : i \in 1..Len(in)} \ excluded
    /\ \A i, j \in 1..Len(out) :
           i < j => FirstIndex(in, out[i]) < FirstIndex(in, out[j])

RECURSIVE split_lines(_)
\* the lines of a text, cut at every newline
split_lines(text) ==
    IF ~InSeq(NL, text) THEN <<text>>
    ELSE LET i == FirstIndex(text, NL)
         IN <<SubSeq(text, 1, i - 1)>> \o split_lines(SubSeq(text, i + 1, Len(text)))

OwnersOf(documents) == [i \in 1..Len(documents) |-> owner[documents[i]]]
CallsOf(f) == {i \in 1..Len(calls) : calls[i].fn = f}

\* ------------------------------------------------------------------------
\* C1: in query and in search, when the embedding backend yields no vector
\* the operation fails with ValueError, and when it fails the embed call is
\* the only call made: no get_similar_documents, converter or chat call.
C1_NoVectorRaisesBeforeAnyCall ==
    op.kind \in {"query", "search"} =>
        /\ (CallsOf("embed") # {} /\ embedded = <<>>) =>
               /\ pc = "failed"
               /\ outcome.status = "ValueError"
        /\ outcome.status = "ValueError" =>
               /\ embedded = <<>>
               /\ calls = << Call("embed", 0, "") >>
               /\ similar_documents = <<>> /\ converted = <<>> /\ messages = <<>>

C1_Witness ==
    /\ op.kind = "search"
    /\ outcome.status = "ValueError"
    /\ embedded = <<>>

\* C3: a find_similar call that returns contains object in its result exactly
\* when include_self is true and some accumulated similar Document converts
\* back to object.
C3_SelfIncludedIffAsked ==
    (op.kind = "find_similar" /\ pc = "done") =>
        (InSeq(op.object, outcome.sources)
            <=> (op.include_self
                 /\ \E i \in 1..Len(similar_documents) :
                        owner[similar_documents[i]] = op.object))

C3_Witness ==
    /\ op.kind = "find_similar" /\ pc = "done"
    /\ ~op.include_self
    /\ \E i \in 1..Len(similar_documents) : owner[similar_documents[i]] = op.object
    /\ outcome.sources # <<>>

\* C4: every similarity fetch of query(text, sources_limit=n) is made with
\* limit n.
C4_QueryFetchUsesSourcesLimit ==
    op.kind = "query" =>
        \A i \in CallsOf("get_similar_documents") : calls[i].limit = op.limit

\* C5: search passes exactly the caller's limit to get_similar_documents,
\* returns no more objects than the storage step returned Documents, and
\* returns the first-seen-order deduplication of the converter's output.
C5_SearchLimitAndDedup ==
    op.kind = "search" =>
        /\ \A i \in CallsOf("get_similar_documents") : calls[i].limit = op.limit
        /\ pc = "done" =>
               /\ Cardinality(CallsOf("get_similar_documents")) = 1
               /\ outcome.status = "returned"
               /\ Len(outcome.sources) <= Len(similar_documents)
               /\ converted = OwnersOf(similar_documents)
               /\ IsFirstSeenDistinct(outcome.sources, converted, {})

C5_Witness ==
    /\ op.kind = "search" /\ pc = "done"
    /\ op.limit = 1
    /\ Len(similar_documents) = 1
    /\ Len(outcome.sources) = 1

\* C6: a successful query hands the chat backend exactly three messages: the
\* system prompt, a system message whose lines are the "content" of every
\* matched Document in storage order (one line per Document, repeats kept),
\* and the user's query text; it returns a one-element response and the
\* first-seen-order deduplication of the converted Documents as sources.
C6_QueryMessagesAndResponse ==
    (op.kind = "query" /\ pc = "done") =>
        /\ Len(messages) = 3
        /\ messages[1].role = "system"
        /\ messages[2].role = "system"
        /\ messages[3].role = "user"
        /\ messages[1].content # <<>>
        /\ op.setting = <<>> => messages[1].content = DefaultPrompt
        /\ (op.setting # <<>> /\ op.setting[1] # <<>>) =>
               messages[1].content = op.setting[1]
        /\ IF similar_documents = <<>>
           THEN messages[2].content = <<>>
           ELSE split_lines(messages[2].content)
                    = [i \in 1..Len(similar_documents) |->
                           Content(similar_documents[i])]
        /\ messages[3].content = op.text
        /\ outcome.status = "returned"
        /\ Len(outcome.response) = 1
        /\ outcome.response[1] \in ChatResponses
        /\ IsFirstSeenDistinct(outcome.sources, OwnersOf(similar_documents), {})

C6_Witness ==
    /\ op.kind = "query" /\ pc = "done"
    /\ Len(similar_documents) = 2
    /\ Len(outcome.sources) = 1
    /\ Len(split_lines(messages[2].content)) = 2

C10_CallCounts ==
    /\ Cardinality(CallsOf("embed")) <= 1
    /\ Cardinality(CallsOf("chat")) <= 1
    /\ op.kind \in {"query", "search"} =>
           /\ Cardinality(CallsOf("get_similar_documents")) <= 1
           /\ (Terminated /\ embedded # <<>>) =>
                  Cardinality(CallsOf("get_similar_documents")) = 1
    /\ op.kind = "find_similar" =>
           /\ CallsOf("embed") = {}
           /\ Cardinality(CallsOf("get_similar_documents")) = produced
           /\ \A i \in CallsOf("get_similar_documents") : calls[i].limit = op.limit
    /\ \A i \in CallsOf("chat") :
           /\ op.kind = "query"
           /\ i = Len(calls)
           /\ pc = "done"
           /\ \E j \in 1..(i - 1) : calls[j].fn = "storage_search"
           /\ calls[i - 1].fn = "bulk_from_documents"
           /\ sources = _deduplicate_list(converted, <<>>)

C10_Witness ==
    /\ op.kind = "find_similar" /\ pc = "done"
    /\ produced = 2
    /\ op.limit = 1
    /\ Cardinality(CallsOf("get_similar_documents")) = 2

\* ------------------------------------------------------------------------
\* Reference deduplication: first occurrences kept, scanning from the front

RECURSIVE first_occurrences(_, _)
first_occurrences(s, seen) ==
    IF s = <<>> THEN <<>>
    ELSE IF Head(s) \in seen THEN first_occurrences(Tail(s), seen)
    ELSE <<Head(s)>> \o first_occurrences(Tail(s), seen \cup {Head(s)})

ExcludedSet(exclusions) ==
    IF exclusions = <<>> THEN {}
    ELSE {exclusions[1][i] : i \in 1..Len(exclusions[1])}

\* C2: _deduplicate_list returns exactly the distinct non-excluded values of
\* its input in order of first appearance, and equals the reference
\* 'deduplicate keeping first occurrences, then remove the excluded values'.
C2_DeduplicateKeepsFirstSeenOrder ==
    dd_done =>
        /\ IsFirstSeenDistinct(dd_result, dd_objects, ExcludedSet(dd_exclusions))
        /\ dd_result = SelectSeq(first_occurrences(dd_objects, {}),
                                 LAMBDA x : x \notin ExcludedSet(dd_exclusions))

C2_Witness ==
    /\ dd_done
    /\ dd_exclusions # <<>>
    /\ dd_objects # <<>>
    /\ ~InSeq(Head(dd_objects), dd_exclusions[1])
    /\ \E i, j \in 1..Len(dd_objects) :
           i < j /\ dd_objects[i] = dd_objects[j] /\ InSeq(dd_objects[i], dd_exclusions[1])
    /\ dd_result # <<>>

\* C8: StorageProvider(mapping) fails with ImproperlyConfigured exactly when
\* a required key is missing or an extra key is supplied, otherwise config is
\* the typed config built from the mapping; the caller's mapping, nested
\* values included, is unchanged by construction, and a later change of it by
\* the caller does not change the provider's config.
C8_ConfigValidatedAndIsolated ==
    init_error # "unattempted" =>
        /\ init_error \in {"none", "ImproperlyConfigured"}
        /\ init_error = "ImproperlyConfigured"
               <=> (~(RequiredKeys \subseteq DOMAIN snap_input)
                    \/ ~(DOMAIN snap_input \subseteq (RequiredKeys \cup OptionalKeys)))
        /\ init_error = "none" => (provider # <<>> /\ snap_config = snap_input)
        /\ init_error # "none" => provider = <<>>
        /\ ~touched => DeepValue(caller_map, heap) = snap_input
        /\ provider # <<>> => DeepValue(provider[1].config, heap) = snap_config

C8_Witness ==
    /\ provider # <<>>
    /\ touched
    /\ "host" \in DOMAIN caller_map
    /\ heap[caller_map["host"]] # snap_input["host"]
    /\ DeepValue(provider[1].config, heap)["host"] = snap_input["host"]

\* C9 as stated: a class statement for a StorageProvider subclass whose body
\* omits config_class raises, and every class that exists declares it.
C9_OmittingDeclarationFails ==
    /\ (class_stmt.name # "none" /\ ~class_stmt.declares) =>
           class_stmt.raised = "AttributeError"
    /\ \A c \in classes : c.declares

\* C9 amended: a class statement raises AttributeError exactly when the new
\* class neither declares config_class nor inherits one; the class then does
\* not exist, every class that exists has config_class, and construction
\* never meets a class without it.
C9_NoClassWithoutConfigClass ==
    /\ \A c \in classes : hasattr_config_class(c.name)
    /\ class_stmt.name # "none" =>
           /\ class_stmt.raised = "AttributeError"
                  <=> (~class_stmt.declares
                       /\ (class_stmt.parent = "StorageProvider"
                           \/ ~hasattr_config_class(class_stmt.parent)))
           /\ class_stmt.raised = "AttributeError" => class_stmt.name \notin DefinedNames
           /\ class_stmt.raised = "none" => class_stmt.name \in DefinedNames
    /\ init_error # "AttributeError"
    /\ provider # <<>> => provider[1].cls \in DefinedNames

C9_Witness ==
    /\ class_stmt.raised = "AttributeError"
    /\ ~class_stmt.declares
    /\ class_stmt.name \notin DefinedNames
    /\ classes # {}
    /\ provider # <<>>

====
